---- MODULE Spec2Model ----
(***************************************************************************)
(* HybridVideoPlayer (src/video.py): a window with two playback backends,  *)
(* the Primary one (QMediaPlayer, "qtPlayer") and the Secondary one        *)
(* (cv2.VideoCapture "cap" polled by the QTimer "cv_timer"), a fallback     *)
(* chain Primary -> Secondary -> OS default application, and the transport  *)
(* controls.  Every handler of the class is one action; a handler's calls   *)
(* to other methods are composed as functions on the record of the          *)
(* object's fields.                                                         *)
(***************************************************************************)
EXTENDS Integers, Sequences, FiniteSets, TLC

\* ------------------------------------------------------------ bounds
\* pending one-shot check_qt_playback callbacks (QTimer.singleShot, line 182)
MaxPendingChecks == 2
\* pending one-shot launch_system_player callbacks (line 229)
MaxPendingLaunch == 2
\* connections of cv_timer.timeout to update_cv_frame (line 219)
MaxConnections == 2
\* the history counters stop counting here
MaxCounted == 2
\* largest total frame count the seek computation is checked for
MaxTotalFrames == 50
\* largest frame rate the frame-delay computation is checked for
MaxFps == 1000

\* ------------------------------------------------------------ constants
\* upper end of the position slider's range (line 159)
SliderMax == 1000

\* ------------------------------------------------------------ inputs
\* The files the user can pick, and what the two libraries make of them.
Files == {"a", "b", "c"}
NoFile == "none"
\* QMediaPlayer ends up with a playable status for the file (else InvalidMedia)
QtAccepts == [f \in Files |-> f = "a"]
\* cv2.VideoCapture(file).isOpened()
CvOpens == [f \in Files |-> f \in {"a", "b"}]
\* cap.get(CAP_PROP_FPS), 0 when the container does not tell
Fps == [f \in Files |-> IF f = "b" THEN 25 ELSE 0]
\* cap.get(CAP_PROP_FRAME_COUNT)
FrameCount == [f \in Files |-> IF f = "c" THEN 0 ELSE 2]
\* slider positions a drag can report (range 0..1000, line 159)
SliderPositions == {0, 500, 1000}

\* ------------------------------------------------------------ state
VARIABLES
    current_file,     \* self.current_file, NoFile while the attribute is unset
    using_cv,         \* self.using_cv
    cap,              \* self.cap: [obj, opened, file, pos]; obj = FALSE is None
    cv_timer,         \* self.cv_timer.isActive()
    connections,      \* number of timeout -> update_cv_frame connections
    frame_delay,      \* self.frame_delay, 0 while unset
    total_frames,     \* self.total_frames, 0 while unset
    qtState,          \* self.qtPlayer.state()
    qtStatus,         \* self.qtPlayer.mediaStatus()
    qtMedia,          \* self.qtPlayer.media(), the stream bound to the player
    videoVisible,     \* self.videoWidget shown
    fallbackVisible,  \* self.fallbackLabel shown
    modeLabel,        \* self.modeLabel text: "qt" or "cv"
    statusLabel,      \* self.statusLabel text (a tag per message)
    playIcon,         \* self.playBtn icon: "play" or "pause"
    positionSlider,   \* self.positionSlider.value()
    timeLabel,        \* self.timeLabel text
    pendingChecks,    \* scheduled check_qt_playback callbacks
    pendingLaunch,    \* scheduled launch_system_player(file) callbacks, in order
    phase,            \* "running", "closed" (window closed), "crashed"
    \* history, not program state
    lastOp,           \* the handler that ran last
    autoOpens,        \* Secondary opens made by check_qt_playback since the last load
    launches,         \* launch_system_player runs since the last load
    acts,             \* user actions since the last load: "none", "other", "toggle"
    loadedQuiet,      \* the last load found no callback pending
    \* the computations checked on their own (SpecCalc)
    calcIn,           \* the arguments: [kind, x, y]
    calcOut           \* the results: [stage, target, frame, delay, text]

progVars == <<current_file, using_cv, cap, cv_timer, connections, frame_delay,
              total_frames, qtState, qtStatus, qtMedia, videoVisible,
              fallbackVisible, modeLabel, statusLabel, playIcon, positionSlider,
              timeLabel, pendingChecks, pendingLaunch, phase>>
histVars == <<lastOp, autoOpens, launches, acts, loadedQuiet>>
calcVars == <<calcIn, calcOut>>
vars == <<progVars, histVars, calcVars>>

NoCap == [obj |-> FALSE, opened |-> FALSE, file |-> NoFile, pos |-> 0]

\* The object's fields as one record; raised marks an exception in flight.
Cur == [current_file |-> current_file, using_cv |-> using_cv, cap |-> cap,
        cv_timer |-> cv_timer, connections |-> connections,
        frame_delay |-> frame_delay, total_frames |-> total_frames,
        qtState |-> qtState, qtStatus |-> qtStatus, qtMedia |-> qtMedia,
        videoVisible |-> videoVisible, fallbackVisible |-> fallbackVisible,
        modeLabel |-> modeLabel, statusLabel |-> statusLabel,
        playIcon |-> playIcon, positionSlider |-> positionSlider,
        timeLabel |-> timeLabel, pendingChecks |-> pendingChecks,
        pendingLaunch |-> pendingLaunch, phase |-> phase, raised |-> FALSE]

Put(s) ==
    /\ current_file' = s.current_file
    /\ using_cv' = s.using_cv
    /\ cap' = s.cap
    /\ cv_timer' = s.cv_timer
    /\ connections' = s.connections
    /\ frame_delay' = s.frame_delay
    /\ total_frames' = s.total_frames
    /\ qtState' = s.qtState
    /\ qtStatus' = s.qtStatus
    /\ qtMedia' = s.qtMedia
    /\ videoVisible' = s.videoVisible
    /\ fallbackVisible' = s.fallbackVisible
    /\ modeLabel' = s.modeLabel
    /\ statusLabel' = s.statusLabel
    /\ playIcon' = s.playIcon
    /\ positionSlider' = s.positionSlider
    /\ timeLabel' = s.timeLabel
    /\ pendingChecks' = s.pendingChecks
    /\ pendingLaunch' = s.pendingLaunch
    /\ phase' = s.phase

\* The bounds on the callback queues and on the connection count.
WithinBounds(s) ==
    /\ s.pendingChecks <= MaxPendingChecks
    /\ Len(s.pendingLaunch) <= MaxPendingLaunch
    /\ s.connections <= MaxConnections

PlayerInit ==
    /\ current_file = NoFile
    /\ using_cv = FALSE
    /\ cap = NoCap
    /\ cv_timer = FALSE
    /\ connections = 0
    /\ frame_delay = 0
    /\ total_frames = 0
    /\ qtState = "Stopped"
    /\ qtStatus = "NoMedia"
    /\ qtMedia = NoFile
    /\ videoVisible = TRUE
    /\ fallbackVisible = FALSE
    /\ modeLabel = "qt"
    /\ statusLabel = "ready"
    /\ playIcon = "play"
    /\ positionSlider = 0
    /\ timeLabel = "00:00 / 00:00"
    /\ pendingChecks = 0
    /\ pendingLaunch = <<>>
    /\ phase = "running"
    /\ lastOp = "init"
    /\ autoOpens = 0
    /\ launches = 0
    /\ acts = "none"
    /\ loadedQuiet = FALSE

\* no computation under check
CalcNone == [kind |-> "none", x |-> 0, y |-> 0]
CalcIdle == [stage |-> "idle", target |-> 0, frame |-> 0, delay |-> 0, text |-> ""]

Init ==
    /\ PlayerInit
    /\ calcIn = CalcNone
    /\ calcOut = CalcIdle

\* ------------------------------------------------------------ helpers
Max(x, y) == IF x >= y THEN x ELSE y

\* Python numbers as the handlers pass them: the value and whether it is a float
\* (cap.get returns floats, and / yields a float).
IntV(n) == [v |-> n, float |-> FALSE]
FloatV(n) == [v |-> n, float |-> TRUE]

\* f"{n:02d}"
Pad2(n) == IF n < 10 THEN "0" \o ToString(n) ELSE ToString(n)

\* the time of day without the reduction of the seconds modulo 60
FormatTimeNoMod(ms) == Pad2((ms \div 1000) \div 60) \o ":" \o Pad2(ms \div 1000)

\* "MM:SS" of a number of milliseconds
FormatTime(ms) == Pad2((ms \div 1000) \div 60) \o ":" \o Pad2((ms \div 1000) % 60)

\* update_time_display: the format code d raises ValueError on a float
UpdateTimeDisplay(s, position, duration) ==
    IF duration.float \/ position.float
    THEN [s EXCEPT !.raised = TRUE]
    ELSE [s EXCEPT !.timeLabel = FormatTime(position.v) \o " / " \o FormatTime(duration.v)]

\* the frame delay without the lower limit of 10 ms
FrameDelayNoClamp(fps) == IF fps > 0 THEN 1000 \div fps ELSE 40

\* max(10, int(1000 / fps)) if fps > 0 else 40
FrameDelay(fps) == IF fps > 0 THEN Max(10, 1000 \div fps) ELSE 40

\* The (position, total) pairs with total <= 130 for which the double product
\* (position / 1000) * total falls just below the integer position * total / 1000,
\* as Python computes it: 0.58 * 50.0 = 28.999999999999996.
FloatShortfall == {<<580, 50>>, <<700, 90>>, <<290, 100>>, <<570, 100>>, <<580, 100>>}

\* set_position with the slider range taken for 0..100 (position / 100)
SeekTargetPercent(position, total) == (position * total) \div 100

\* set_position with round() in place of int()
SeekTargetRounded(position, total) == (position * total + 500) \div 1000

\* int((position / 1000) * total_frames), in double arithmetic
SeekTarget(position, total) ==
    IF <<position, total>> \in FloatShortfall
    THEN (position * total) \div 1000 - 1
    ELSE (position * total) \div 1000

\* cap.read() with the cursor at pos of total frames: ret, and the frame's index
CapRead(pos, total) ==
    [ret |-> pos < total, frame |-> IF pos < total THEN pos ELSE -1]

\* QMediaPlayer.stop()
QtStop(s) == [s EXCEPT !.qtState = "Stopped"]

\* QMediaPlayer.setMedia(file): stops the player and starts loading the file
QtSetMedia(s, file) ==
    [s EXCEPT !.qtMedia = file, !.qtStatus = "LoadingMedia", !.qtState = "Stopped"]

\* QMediaPlayer.play(): with invalid media the player stays stopped, or loads
\* the media again (reload), the backend decides
QtPlay(s, reload) ==
    IF s.qtStatus = "NoMedia" THEN s
    ELSE IF s.qtStatus = "InvalidMedia"
    THEN IF reload
         THEN [s EXCEPT !.qtStatus = "LoadingMedia", !.qtState = "Playing"]
         ELSE s
    ELSE [s EXCEPT !.qtState = "Playing"]

\* QMediaPlayer.pause()
QtPause(s) == [s EXCEPT !.qtState = "Paused"]

\* stop_playback
StopPlayback(s) ==
    LET s1 == IF s.using_cv
              THEN [s EXCEPT !.cap = IF s.cap.obj THEN NoCap ELSE @,
                             !.cv_timer = FALSE]
              ELSE QtStop(s)
    IN [s1 EXCEPT !.positionSlider = 0, !.timeLabel = "00:00 / 00:00"]

\* start_opencv_playback without the start of cv_timer (line 220)
StartOpenCvPlaybackNoTimer(s, file) ==
    LET fps == Fps[file]
        s1 == [s EXCEPT !.cap = [obj |-> TRUE, opened |-> CvOpens[file],
                                 file |-> file, pos |-> 0]]
        s2 == [s1 EXCEPT !.frame_delay = FrameDelay(fps),
                         !.total_frames = FrameCount[file],
                         !.using_cv = TRUE,
                         !.modeLabel = "cv",
                         !.videoVisible = FALSE,
                         !.fallbackVisible = TRUE,
                         !.connections = @ + 1,
                         !.statusLabel = "cv_playing",
                         !.positionSlider = 0]
        dur == IF fps > 0 THEN FloatV((FrameCount[file] * 1000) \div fps)
                          ELSE IntV(0)
        s3 == UpdateTimeDisplay(s2, IntV(0), dur)
        except(x) == [x EXCEPT !.raised = FALSE,
                               !.statusLabel = "cv_error",
                               !.pendingLaunch = Append(@, file)]
    IN IF ~CvOpens[file] THEN except(s1)
       ELSE IF s3.raised THEN except(s3)
       ELSE s3

\* start_opencv_playback without the isOpened test (lines 202-203)
StartOpenCvPlaybackNoOpenCheck(s, file) ==
    LET fps == IF CvOpens[file] THEN Fps[file] ELSE 0
        frames == IF CvOpens[file] THEN FrameCount[file] ELSE 0
        s1 == [s EXCEPT !.cap = [obj |-> TRUE, opened |-> CvOpens[file],
                                 file |-> file, pos |-> 0]]
        s2 == [s1 EXCEPT !.frame_delay = FrameDelay(fps),
                         !.total_frames = frames,
                         !.using_cv = TRUE,
                         !.modeLabel = "cv",
                         !.videoVisible = FALSE,
                         !.fallbackVisible = TRUE,
                         !.connections = @ + 1,
                         !.cv_timer = TRUE,
                         !.statusLabel = "cv_playing",
                         !.positionSlider = 0]
        dur == IF fps > 0 THEN FloatV((frames * 1000) \div fps) ELSE IntV(0)
        s3 == UpdateTimeDisplay(s2, IntV(0), dur)
        except(x) == [x EXCEPT !.raised = FALSE,
                               !.statusLabel = "cv_error",
                               !.pendingLaunch = Append(@, file)]
    IN IF s3.raised THEN except(s3) ELSE s3

\* start_opencv_playback, its except branch included
StartOpenCvPlayback(s, file) ==
    LET fps == Fps[file]
        s1 == [s EXCEPT !.cap = [obj |-> TRUE, opened |-> CvOpens[file],
                                 file |-> file, pos |-> 0]]
        s2 == [s1 EXCEPT !.frame_delay = FrameDelay(fps),
                         !.total_frames = FrameCount[file],
                         !.using_cv = TRUE,
                         !.modeLabel = "cv",
                         !.videoVisible = FALSE,
                         !.fallbackVisible = TRUE,
                         !.connections = @ + 1,
                         !.cv_timer = TRUE,
                         !.statusLabel = "cv_playing",
                         !.positionSlider = 0]
        dur == IF fps > 0 THEN FloatV((FrameCount[file] * 1000) \div fps)
                          ELSE IntV(0)
        s3 == UpdateTimeDisplay(s2, IntV(0), dur)
        except(x) == [x EXCEPT !.raised = FALSE,
                               !.statusLabel = "cv_error",
                               !.pendingLaunch = Append(@, file)]
    IN IF ~CvOpens[file] THEN except(s1)
       ELSE IF s3.raised THEN except(s3)
       ELSE s3

\* load_video
LoadVideo(s, file) ==
    LET s1 == StopPlayback(s)
        s2 == [s1 EXCEPT !.current_file = file, !.statusLabel = "loading"]
        s3 == QtSetMedia(s2, file)
    IN [s3 EXCEPT !.pendingChecks = @ + 1]

\* check_qt_playback
CheckQtPlayback(s) ==
    IF s.qtStatus = "InvalidMedia"
    THEN StartOpenCvPlayback([s EXCEPT !.statusLabel = "qt_unsupported"],
                             s.current_file)
    ELSE [s EXCEPT !.modeLabel = "qt", !.statusLabel = "qt_loaded"]

\* play_video
PlayVideo(s, reload) ==
    IF s.current_file = NoFile THEN s
    ELSE IF s.using_cv
    THEN IF s.cv_timer
         THEN [s EXCEPT !.cv_timer = FALSE, !.playIcon = "play",
                        !.statusLabel = "paused_cv"]
         ELSE [s EXCEPT !.cv_timer = TRUE, !.playIcon = "pause",
                        !.statusLabel = "playing_cv"]
    ELSE IF s.qtState = "Playing"
         THEN [QtPause(s) EXCEPT !.playIcon = "play", !.statusLabel = "paused_qt"]
         ELSE [QtPlay(s, reload) EXCEPT !.playIcon = "pause",
                                        !.statusLabel = "playing_qt"]

\* switch_to_qt_mode without the release of the decode handle (lines 307-309)
SwitchToQtModeNoRelease(s, reload) ==
    LET s1 == [s EXCEPT !.using_cv = FALSE, !.cv_timer = FALSE,
                        !.fallbackVisible = FALSE, !.videoVisible = TRUE]
        s2 == PlayVideo(QtSetMedia(s1, s1.current_file), reload)
    IN [s2 EXCEPT !.modeLabel = "qt", !.statusLabel = "switched_qt"]

\* switch_to_qt_mode
SwitchToQtMode(s, reload) ==
    LET s1 == [s EXCEPT !.using_cv = FALSE, !.cv_timer = FALSE,
                        !.cap = IF s.cap.obj THEN NoCap ELSE @,
                        !.fallbackVisible = FALSE, !.videoVisible = TRUE]
        s2 == PlayVideo(QtSetMedia(s1, s1.current_file), reload)
    IN [s2 EXCEPT !.modeLabel = "qt", !.statusLabel = "switched_qt"]

\* toggle_playback_mode without the stop_playback of line 300
TogglePlaybackModeNoStop(s, reload) ==
    IF s.current_file = NoFile THEN s
    ELSE IF s.using_cv THEN SwitchToQtMode(s, reload)
    ELSE StartOpenCvPlayback(s, s.current_file)

\* toggle_playback_mode without the hasattr guard of lines 292-293
TogglePlaybackModeNoGuard(s, reload) ==
    IF s.using_cv THEN SwitchToQtMode(s, reload)
    ELSE IF s.current_file = NoFile
    THEN [StopPlayback(s) EXCEPT !.statusLabel = "cv_error"]
    ELSE StartOpenCvPlayback(StopPlayback(s), s.current_file)

\* toggle_playback_mode
TogglePlaybackMode(s, reload) ==
    IF s.current_file = NoFile THEN s
    ELSE IF s.using_cv THEN SwitchToQtMode(s, reload)
    ELSE StartOpenCvPlayback(StopPlayback(s), s.current_file)

\* set_position
SetPosition(s, position) ==
    IF s.using_cv
    THEN IF s.cap.obj /\ s.cap.opened
         THEN [s EXCEPT !.cap.pos = SeekTarget(position, FrameCount[s.cap.file])]
         ELSE s
    ELSE s

\* update_cv_frame that rewinds the cursor at end of stream (a loop)
UpdateCvFrameRewind(s) ==
    IF ~s.cap.obj THEN s
    ELSE IF ~(s.cap.opened /\ s.cap.pos < FrameCount[s.cap.file])
    THEN [s EXCEPT !.cv_timer = FALSE, !.statusLabel = "complete",
                   !.playIcon = "play", !.cap.pos = 0]
    ELSE LET s1 == [s EXCEPT !.cap.pos = @ + 1]
             fps == Fps[s.cap.file]
         IN IF s1.total_frames > 0
            THEN LET s2 == [s1 EXCEPT !.positionSlider =
                                (s1.cap.pos * 1000) \div s1.total_frames]
                 IN IF fps > 0
                    THEN [s2 EXCEPT !.phase = "crashed"]
                    ELSE s2
            ELSE s1

\* update_cv_frame; an exception it raises is not caught and ends the process
UpdateCvFrame(s) ==
    IF ~s.cap.obj THEN s
    ELSE IF ~(s.cap.opened /\ s.cap.pos < FrameCount[s.cap.file])
    THEN [s EXCEPT !.cv_timer = FALSE, !.statusLabel = "complete",
                   !.playIcon = "play"]
    ELSE LET s1 == [s EXCEPT !.cap.pos = @ + 1]
             fps == Fps[s.cap.file]
         IN IF s1.total_frames > 0
            THEN LET s2 == [s1 EXCEPT !.positionSlider =
                                (s1.cap.pos * 1000) \div s1.total_frames]
                 IN IF fps > 0
                    THEN LET s3 == UpdateTimeDisplay(s2,
                                      FloatV((s1.cap.pos * 1000) \div fps),
                                      FloatV((s1.total_frames * 1000) \div fps))
                         IN IF s3.raised
                            THEN [s3 EXCEPT !.raised = FALSE, !.phase = "crashed"]
                            ELSE s3
                    ELSE s2
            ELSE s1

\* one timeout of cv_timer: the signal calls every connection of update_cv_frame
RECURSIVE EmitTimeout(_, _)
EmitTimeout(s, k) ==
    IF k = 0 \/ s.phase # "running" THEN s
    ELSE EmitTimeout(UpdateCvFrame(s), k - 1)

\* launch_system_player: the OS call may fail, the handler catches it
LaunchSystemPlayer(s, ok) ==
    [s EXCEPT !.statusLabel = IF ok THEN "launched" ELSE "launch_failed"]

\* closeEvent
CloseEvent(s) == [StopPlayback(s) EXCEPT !.phase = "closed"]

\* ------------------------------------------------------------ actions
Running == phase = "running"

UserActs(kind) ==
    acts' = IF kind = "toggle" \/ acts = "toggle" THEN "toggle" ELSE "other"

\* open_file -> load_video(file)
Load ==
    \E f \in Files :
        LET s == LoadVideo(Cur, f) IN
        /\ Running
        /\ WithinBounds(s)
        /\ Put(s)
        /\ lastOp' = "load"
        /\ autoOpens' = 0
        /\ launches' = 0
        /\ acts' = "none"
        /\ loadedQuiet' = (pendingChecks = 0 /\ pendingLaunch = <<>>)
        /\ UNCHANGED calcVars

\* the one-shot of line 182 fires
Check ==
    LET s == CheckQtPlayback([Cur EXCEPT !.pendingChecks = @ - 1]) IN
    /\ Running
    /\ pendingChecks > 0
    /\ WithinBounds(s)
    /\ Put(s)
    /\ lastOp' = "check"
    /\ autoOpens' = IF qtStatus = "InvalidMedia" /\ autoOpens < MaxCounted
                    THEN autoOpens + 1 ELSE autoOpens
    /\ UNCHANGED <<launches, acts, loadedQuiet, calcVars>>

\* the mode button
Toggle ==
    \E reload \in BOOLEAN :
        LET s == TogglePlaybackMode(Cur, reload) IN
        /\ Running
        /\ WithinBounds(s)
        /\ Put(s)
        /\ lastOp' = "toggle"
        /\ UserActs("toggle")
        /\ UNCHANGED <<autoOpens, launches, loadedQuiet, calcVars>>

\* the play button
Play ==
    \E reload \in BOOLEAN :
        /\ Running
        /\ Put(PlayVideo(Cur, reload))
        /\ lastOp' = "play"
        /\ UserActs("other")
        /\ UNCHANGED <<autoOpens, launches, loadedQuiet, calcVars>>

\* a drag of the position slider
Seek ==
    \E p \in SliderPositions :
        /\ Running
        /\ Put(SetPosition(Cur, p))
        /\ lastOp' = "seek"
        /\ UserActs("other")
        /\ UNCHANGED <<autoOpens, launches, loadedQuiet, calcVars>>

\* cv_timer times out
Tick ==
    /\ Running
    /\ cv_timer
    /\ Put(EmitTimeout(Cur, connections))
    /\ lastOp' = "tick"
    /\ UNCHANGED <<autoOpens, launches, acts, loadedQuiet, calcVars>>

\* the one-shot of line 229 fires
Launch ==
    \E ok \in BOOLEAN :
        /\ Running
        /\ pendingLaunch # <<>>
        /\ Put(LaunchSystemPlayer([Cur EXCEPT !.pendingLaunch = Tail(@)], ok))
        /\ lastOp' = "launch"
        /\ launches' = IF launches < MaxCounted THEN launches + 1 ELSE launches
        /\ UNCHANGED <<autoOpens, acts, loadedQuiet, calcVars>>

\* the window is closed
Close ==
    /\ Running
    /\ Put(CloseEvent(Cur))
    /\ lastOp' = "close"
    /\ UNCHANGED <<autoOpens, launches, acts, loadedQuiet, calcVars>>

\* the Primary engine finishes loading the media it was given
QtResolve ==
    /\ Running
    /\ qtStatus = "LoadingMedia"
    /\ IF QtAccepts[qtMedia]
       THEN qtStatus' = "LoadedMedia" /\ UNCHANGED qtState
       ELSE qtStatus' = "InvalidMedia" /\ qtState' = "Stopped"
    /\ lastOp' = "resolve"
    /\ UNCHANGED <<current_file, using_cv, cap, cv_timer, connections, frame_delay,
                   total_frames, qtMedia, videoVisible, fallbackVisible, modeLabel,
                   statusLabel, playIcon, positionSlider, timeLabel, pendingChecks,
                   pendingLaunch, phase, autoOpens, launches, acts, loadedQuiet,
                   calcVars>>

\* the Primary engine plays the media to its end
QtEndOfMedia ==
    /\ Running
    /\ qtState = "Playing"
    /\ qtStatus = "LoadedMedia"
    /\ qtState' = "Stopped"
    /\ lastOp' = "eom"
    /\ UNCHANGED <<current_file, using_cv, cap, cv_timer, connections, frame_delay,
                   total_frames, qtStatus, qtMedia, videoVisible, fallbackVisible,
                   modeLabel, statusLabel, playIcon, positionSlider, timeLabel,
                   pendingChecks, pendingLaunch, phase, autoOpens, launches, acts,
                   loadedQuiet, calcVars>>

Next ==
    \/ Load
    \/ Check
    \/ Toggle
    \/ Play
    \/ Seek
    \/ Tick
    \/ Launch
    \/ Close
    \/ QtResolve
    \/ QtEndOfMedia

Spec == Init /\ [][Next]_vars

\* ------------------------------------------------------------ computations
\* The arithmetic of set_position, start_opencv_playback and
\* update_time_display, applied to arguments drawn from their ranges.
SeekInputs ==
    {[kind |-> "seek", x |-> p, y |-> n] : p \in 0..SliderMax, n \in 0..MaxTotalFrames}
DelayInputs == {[kind |-> "delay", x |-> f, y |-> 0] : f \in (-1)..MaxFps}
TimeValues == {0, 999, 1000, 59999, 60000, 65000, 130000, 599999, 600000,
               3599000, 5999999, 6000000}
TimeInputs == {[kind |-> "time", x |-> a, y |-> b] : a \in TimeValues, b \in TimeValues}

CalcInit ==
    /\ PlayerInit
    /\ calcIn \in SeekInputs \cup DelayInputs \cup TimeInputs
    /\ calcOut = CalcIdle

\* set_position computes the target frame and moves the cursor to it
CalcSeek ==
    /\ calcIn.kind = "seek"
    /\ calcOut.stage = "idle"
    /\ calcOut' = [calcOut EXCEPT !.stage = "sought",
                                  !.target = SeekTarget(calcIn.x, calcIn.y)]
    /\ UNCHANGED <<progVars, histVars, calcIn>>

\* the next update_cv_frame reads one frame at the cursor
CalcRead ==
    /\ calcIn.kind = "seek"
    /\ calcOut.stage = "sought"
    /\ calcOut' = [calcOut EXCEPT !.stage = "read",
                                  !.frame = CapRead(calcOut.target, calcIn.y).frame]
    /\ UNCHANGED <<progVars, histVars, calcIn>>

\* start_opencv_playback computes frame_delay from the frame rate
CalcDelay ==
    /\ calcIn.kind = "delay"
    /\ calcOut.stage = "idle"
    /\ calcOut' = [calcOut EXCEPT !.stage = "done", !.delay = FrameDelay(calcIn.x)]
    /\ UNCHANGED <<progVars, histVars, calcIn>>

\* update_time_display(position, duration) with integer milliseconds
CalcTime ==
    /\ calcIn.kind = "time"
    /\ calcOut.stage = "idle"
    /\ calcOut' = [calcOut EXCEPT
                      !.stage = "done",
                      !.text = UpdateTimeDisplay(Cur, IntV(calcIn.x),
                                                 IntV(calcIn.y)).timeLabel]
    /\ UNCHANGED <<progVars, histVars, calcIn>>

CalcNext ==
    \/ CalcSeek
    \/ CalcRead
    \/ CalcDelay
    \/ CalcTime

SpecCalc == CalcInit /\ [][CalcNext]_vars

\* ------------------------------------------------------------ claims
\* A step that calls start_opencv_playback: the automatic fallback of
\* check_qt_playback, or the mode button pressed while Primary is active.
ActivatesSecondary ==
    \/ lastOp' = "check" /\ qtStatus = "InvalidMedia"
    \/ lastOp' = "toggle" /\ current_file # NoFile /\ ~using_cv

\* The Secondary decode handle is open.
SecondaryHeld == cap.obj /\ cap.opened
\* The Primary player has a stream bound to it.
PrimaryHeld == qtMedia # NoFile

\* C1: in every reachable state the Primary player is not playing while the
\* Secondary frame-polling timer is running.
C1_OneBackendActive == ~(qtState = "Playing" /\ cv_timer)

\* C1 witness: Primary was playing (pause icon) and the mode button then started
\* the Secondary timer.
C1_Witness ==
    /\ lastOp = "toggle"
    /\ cv_timer
    /\ using_cv
    /\ playIcon = "pause"
    /\ qtState = "Stopped"

\* The last load found nothing pending, its check has run and the user did
\* nothing since.
LoadSettled ==
    /\ current_file # NoFile
    /\ loadedQuiet
    /\ acts = "none"
    /\ pendingChecks = 0

\* C2: after a load of a file the Primary Backend accepts, once the check has
\* run and with no other user action, Primary is the active backend: the flag
\* says Primary, the primary surface is shown and the frame surface hidden.
C2_LoadMakesPrimaryActive ==
    (LoadSettled /\ QtAccepts[current_file])
        => (~using_cv /\ videoVisible /\ ~fallbackVisible /\ modeLabel = "qt")

\* C3: a check that finds invalid media, for a current file that Secondary can
\* open, leaves Secondary active for that file: indicator, surfaces, timer.
C3_InvalidCheckActivatesSecondary ==
    [][(lastOp' = "check" /\ qtStatus = "InvalidMedia" /\ CvOpens[current_file])
        => /\ using_cv'
           /\ modeLabel' = "cv"
           /\ fallbackVisible'
           /\ ~videoVisible'
           /\ cv_timer'
           /\ cap'.obj /\ cap'.opened /\ cap'.file = current_file']_vars

\* C3 witness: the check of a settled load has just activated Secondary.
C3_Witness ==
    /\ LoadSettled
    /\ lastOp = "check"
    /\ autoOpens = 1
    /\ CvOpens[current_file]
    /\ using_cv /\ cv_timer /\ modeLabel = "cv"

\* C4: after a load of a file both backends reject (the check saw invalid
\* media, the open failed) and with no other user action, the OS fallback is
\* scheduled or invoked exactly once in all, the timer is not running, Primary
\* is not playing and no handler has failed.
C4_BothRejectOneFallback ==
    (LoadSettled /\ autoOpens >= 1 /\ ~QtAccepts[current_file]
                 /\ ~CvOpens[current_file])
        => /\ launches + Len(pendingLaunch) = 1
           /\ ~cv_timer
           /\ qtState # "Playing"
           /\ phase # "crashed"

\* C4 witness: the single fallback of such a load has been invoked.
C4_Witness ==
    /\ LoadSettled
    /\ autoOpens >= 1
    /\ ~QtAccepts[current_file]
    /\ ~CvOpens[current_file]
    /\ lastOp = "launch"
    /\ launches = 1
    /\ pendingLaunch = <<>>

\* C5: whenever the open of start_opencv_playback succeeds, Secondary starts
\* playing and no OS fallback is scheduled.
C5_FallbackOnlyOnOpenFailure ==
    [][(ActivatesSecondary /\ CvOpens[current_file])
        => (using_cv' /\ cv_timer' /\ pendingLaunch' = pendingLaunch)]_vars

\* C6: a mode-button press with a file loaded leaves exactly one backend's
\* resources held; the second of two presses made from Primary returns to
\* Primary with the timer stopped and no decode handle.
C6_ToggleTwiceReturns ==
    [][(lastOp' = "toggle" /\ current_file # NoFile /\ CvOpens[current_file])
        => /\ PrimaryHeld' # SecondaryHeld'
           /\ (lastOp = "toggle" /\ using_cv)
                => (~using_cv' /\ ~cv_timer' /\ ~cap'.obj)]_vars

\* C7: every activation of Secondary happens with Primary released: playback
\* stopped and no stream bound to the Primary player.
C7_PrimaryReleasedFirst ==
    [][ActivatesSecondary => (qtState' = "Stopped" /\ ~PrimaryHeld')]_vars

\* C8: with no manual toggle since the last load, the fallback chain has opened
\* Secondary at most once and invoked the OS fallback at most once since it.
C8_EachTierOncePerLoad ==
    (acts # "toggle") => (autoOpens <= 1 /\ launches <= 1)

\* C9: with no file ever loaded the mode button changes nothing of the program.
C9_ToggleWithoutFileIsNoOp ==
    [][(lastOp' = "toggle" /\ current_file = NoFile) => UNCHANGED progVars]_vars

\* C9 witness: the mode button was pressed before any load.
C9_Witness == lastOp = "toggle" /\ current_file = NoFile

\* C10: in Secondary mode a timer tick that finds a frame advances the decode
\* cursor by exactly one frame.
C10_OneFramePerTick ==
    [][(lastOp' = "tick" /\ using_cv /\ SecondaryHeld
                         /\ cap.pos < FrameCount[cap.file])
        => cap'.pos = cap.pos + 1]_vars

\* Frames the open decode handle can still deliver (none when it is not open).
Remaining == IF cap.opened THEN FrameCount[cap.file] - cap.pos ELSE 0

\* C11: a tick in which a read finds no frame left stops the timer, reports
\* playback complete, shows the play icon and does not rewind the cursor; the
\* cursor of a handle moves backwards only by a seek or a re-open (mode button,
\* fallback check), and the play button leaves the decode handle as it is.
C11_EndOfStreamNoRewind ==
    [][/\ (lastOp' = "tick" /\ cap.obj /\ Remaining < connections
                            /\ phase' = "running")
            => /\ ~cv_timer'
               /\ statusLabel' = "complete"
               /\ playIcon' = "play"
               /\ cap'.obj /\ cap'.pos = cap.pos + Remaining
       /\ (cap.obj /\ cap'.obj /\ cap'.pos < cap.pos)
            => lastOp' \in {"seek", "toggle", "check"}
       /\ (lastOp' = "play") => cap' = cap]_vars

\* C11 witness: a tick has found the stream at its end, the cursor stays there.
C11_Witness ==
    /\ lastOp = "tick"
    /\ statusLabel = "complete"
    /\ ~cv_timer
    /\ playIcon = "play"
    /\ cap.opened
    /\ cap.pos = FrameCount[cap.file]
    /\ cap.pos > 0

\* C16: a tick that finds a frame completes without an error and leaves the
\* progress indicator at int(current_frame / total_frames * 1000) and, the
\* frame rate known, the readout at the MM:SS of current_frame / fps and
\* total_frames / fps.
C16_TickUpdatesProgress ==
    [][(lastOp' = "tick" /\ using_cv /\ SecondaryHeld /\ Remaining > 0)
        => /\ phase' = "running"
           /\ total_frames > 0
                => positionSlider' = (cap'.pos * 1000) \div total_frames
           /\ (total_frames > 0 /\ Fps[cap.file] > 0)
                => timeLabel' =
                     FormatTime((cap'.pos * 1000) \div Fps[cap.file]) \o " / "
                     \o FormatTime((total_frames * 1000) \div Fps[cap.file])]_vars

\* C17: in every state reached by a step, while the flag says Primary the
\* frame timer is not running and no decode handle is open; a switch back to
\* Primary, a load and a window close made while the flag says Secondary leave
\* no decode handle and the timer stopped.
C17_PrimaryMeansSecondaryReleased ==
    [][/\ ~using_cv' => (~cv_timer' /\ ~SecondaryHeld')
       /\ (using_cv /\ lastOp' \in {"load", "close", "toggle"})
            => (~cv_timer' /\ ~cap'.obj)]_vars

\* C17 witness: Secondary was torn down by a load while its handle was in use
\* (the flag still says Secondary, the handle is gone).
C17_Witness ==
    /\ lastOp = "load"
    /\ using_cv
    /\ ~cap.obj
    /\ ~cv_timer

\* C18: the frame timer never runs without a decode handle to read from (with
\* one, fair ticks reach the end of the stream and stop it).
C18_TimerHasHandle == cv_timer => cap.obj

\* C19: the mode indicator and the visible surface agree with the flag.
C19_IndicatorMatchesFlag ==
    /\ using_cv <=> (modeLabel = "cv")
    /\ using_cv <=> fallbackVisible
    /\ using_cv <=> ~videoVisible

\* C20: the OS fallback is invoked only for the file that is current then.
C20_FallbackForCurrentFile ==
    [][(lastOp' = "launch") => Head(pendingLaunch) = current_file]_vars

\* round(position / 1000 * total): the nearest integers of the exact product
\* (both neighbours at an exact half, where the rounding rule decides).
RoundOf(position, total) ==
    LET q == (position * total) \div 1000
        r == (position * total) % 1000
    IN IF r < 500 THEN {q} ELSE IF r > 500 THEN {q + 1} ELSE {q, q + 1}

Dist(a, b) == IF a >= b THEN a - b ELSE b - a

SeekRead == calcIn.kind = "seek" /\ calcOut.stage = "read"
SeekDone == calcIn.kind = "seek" /\ calcOut.stage \in {"sought", "read"}

\* C12 as stated: for every slider position and every frame count of a file
\* with frames, the read after a seek yields a frame whose index is within one
\* of round(p / 1000 * total).
C12_SeekReadWithinOne ==
    (SeekRead /\ calcIn.y > 0)
        => /\ calcOut.frame >= 0
           /\ \E r \in RoundOf(calcIn.x, calcIn.y) : Dist(calcOut.frame, r) <= 1

\* C12 amended: for a position below the slider's maximum and a file with
\* frames, the read after a seek yields a frame whose index is within one of
\* round(p / 1000 * total); at the maximum, or with no frames, the cursor is at
\* the end of the stream and the read yields no frame.
C12_SeekReadWithinOneBelowMax ==
    SeekRead =>
        IF calcIn.x < SliderMax /\ calcIn.y > 0
        THEN /\ calcOut.frame >= 0
             /\ calcOut.frame < calcIn.y
             /\ \A r \in RoundOf(calcIn.x, calcIn.y) : Dist(calcOut.frame, r) <= 1
        ELSE calcOut.frame = -1

\* C12 witness: position 999 of 3 frames, the read yields frame 2 (round is 3).
C12_Witness ==
    /\ SeekRead
    /\ calcIn.x = 999
    /\ calcIn.y = 3
    /\ calcOut.frame = 2

\* C13 as stated: the frame index a seek passes to the cursor is
\* round(position / 1000 * total).
C13_TargetIsRound ==
    SeekDone => calcOut.target \in RoundOf(calcIn.x, calcIn.y)

\* C13 amended: the frame index is the product truncated, not rounded: the
\* integer part of position * total / 1000, or one less when the product is
\* integral and its double value falls just below it.
C13_TargetIsTruncation ==
    SeekDone =>
        /\ calcOut.target * 1000 <= calcIn.x * calcIn.y
        /\ calcIn.x * calcIn.y <= calcOut.target * 1000 + 1000
        /\ (calcIn.x * calcIn.y) % 1000 # 0
             => calcIn.x * calcIn.y < calcOut.target * 1000 + 1000

\* C13 witness: position 580 of 50 frames gives 28 (0.58 * 50.0 is just below 29).
C13_Witness ==
    /\ SeekDone
    /\ calcIn.x = 580
    /\ calcIn.y = 50
    /\ calcOut.target = 28

DelayDone == calcIn.kind = "delay" /\ calcOut.stage = "done"

\* C14: the frame delay is 40 ms for a frame rate that is not positive, else
\* the integer part of 1000 / fps raised to at least 10 ms: 33 for 30, 10 for
\* 1000, never below 10.
C14_FrameDelay ==
    DelayDone =>
        LET fps == calcIn.x
            d == calcOut.delay
        IN /\ fps <= 0 => d = 40
           /\ fps > 0 => /\ d >= 10
                         /\ d > 10 => (d * fps <= 1000 /\ 1000 < (d + 1) * fps)
                         /\ d = 10 => 1000 < 11 * fps
           /\ fps = 30 => d = 33
           /\ fps = 1000 => d = 10

\* C14 witness: the delay of a 30 fps file is 33 ms.
C14_Witness == DelayDone /\ calcIn.x = 30 /\ calcOut.delay = 33

Digit == <<"0", "1", "2", "3", "4", "5", "6", "7", "8", "9">>
TwoDigits(n) == Digit[(n \div 10) + 1] \o Digit[(n % 10) + 1]
\* decimal digits of n < 1000, at least two of them
Decimal(n) ==
    IF n < 100 THEN TwoDigits(n) ELSE Digit[(n \div 100) + 1] \o TwoDigits(n % 100)
\* minutes and seconds of a number of milliseconds
Clock(ms) ==
    LET secs == ms \div 1000
        mins == secs \div 60
    IN Decimal(mins) \o ":" \o Decimal(secs - 60 * mins)

TimeDone == calcIn.kind = "time" /\ calcOut.stage = "done"

====
